---- MODULE Spec2Model ----
(***************************************************************************)
(* A model of AthenaAdapter (src/dbt/adapters/athena/impl.py): relation    *)
(* listing and catalog assembly over the Glue API with their SQL fallback, *)
(* the S3 table-location policy, and the S3 clean-up operations.           *)
(*                                                                         *)
(* Text that the code manipulates (schema names that are lower-cased, S3   *)
(* paths that are concatenated or matched by a regular expression) is a    *)
(* sequence of one-character strings; text that the code only passes on    *)
(* is a plain string.                                                      *)
(***************************************************************************)
EXTENDS Integers, Sequences, FiniteSets, TLC

VARIABLES
    op,              \* the adapter method being executed
    pc,              \* position inside that method
    args,            \* the method's arguments
    outcome,         \* how the call ended: pending, return (value) or raise (exc)
    remote_schemas,  \* what list_schemas(target_database) answers
    target_schemas,  \* _get_one_catalog: the working schema list
    schema_idx,      \* _get_one_catalog: index of the schema being streamed
    page,            \* tables of the current page not yet yielded
    more,            \* the paginator has a further page
    page_no,         \* pages fetched in the current stream
    streamed,        \* table descriptions Glue has delivered to the current call
    relations,       \* list_relations_without_caching: accumulator
    rows,            \* _get_one_catalog: accumulator
    glue_calls,      \* Glue API calls issued by the current call, in order
    sql_calls,       \* SQL-path calls issued by the current call, in order
    caught,          \* the exception the except-clause handled, if any
    classified,      \* the latest _get_rel_type_from_glue_response call and its result
    creds,           \* connection credentials (s3_data_dir, s3_staging_dir, s3_data_naming)
    issued,          \* identifiers uuid4() has produced so far
    glue_world,      \* Glue's answer to get_table, per table name
    s3_deletes,      \* S3 bulk deletes issued by the current call, in order
    table_local,     \* clean_up_table: the local variable table
    partitions,      \* clean_up_partitions: partitions the loop has not reached yet
    prev,            \* summary of the previous completed call
    ncalls           \* number of calls started

vars == <<op, pc, args, outcome, remote_schemas, target_schemas, schema_idx, page,
          more, page_no, streamed, relations, rows, glue_calls, sql_calls, caught, classified,
          creds, issued, glue_world, s3_deletes, table_local, partitions, prev, ncalls>>

catalogVars == <<remote_schemas, target_schemas, schema_idx, page, more, page_no, streamed,
                 relations, rows, sql_calls, caught, classified>>

storageVars == <<creds, issued, glue_world, s3_deletes, table_local, partitions, prev, ncalls>>

----------------------------------------------------------------------------
(* Bounds of the model *)

\* longest list list_schemas answers
MaxSchemas == 2
\* most pages one get_tables stream has
MaxPages == 2
\* most table descriptions Glue streams during one call
MaxTables == 2
\* most partitions get_partitions answers
MaxPartitions == 2
\* most calls made on one adapter in a behaviour
MaxCalls == 3

\* query_params["MaxResults"]
MaxResults == 50

----------------------------------------------------------------------------
(* Values *)

NoExc == [type |-> "none", detail |-> ""]

ClientError(code) == [type |-> "ClientError", detail |-> code]

RuntimeException(msg) == [type |-> "RuntimeException", detail |-> msg]

NoValue == [shape |-> "none"]

Pending == [kind |-> "pending", exc |-> NoExc, value |-> NoValue]

Returned(v) == [kind |-> "return", exc |-> NoExc, value |-> v]

Raised(e) == [kind |-> "raise", exc |-> e, value |-> NoValue]

\* error codes a Glue call can fail with
ErrorCodes == {"AccessDeniedException", "ThrottlingException", "EntityNotFoundException"}

RelationTypeView == "view"

RelationTypeTable == "table"

GET_CATALOG_MACRO_NAME == "get_catalog"

\* sequences over S of length at most n
SeqUpTo(S, n) == UNION {[1..k -> S] : k \in 0..n}

\* sequences over S of length at most n without repetition
DistinctSeqUpTo(S, n) == {s \in SeqUpTo(S, n) : \A i, j \in DOMAIN s : s[i] = s[j] => i = j}

\* str.lower() on one character
LowerChar(c) == CASE c = "A" -> "a" [] c = "B" -> "b" [] OTHER -> c

\* str.lower()
lower(s) == [i \in DOMAIN s |-> LowerChar(s[i])]

----------------------------------------------------------------------------
(* Glue table descriptions *)

Col(name, type) == [Name |-> name, Type |-> type]

ColC(name, type, comment) == [Name |-> name, Type |-> type, Comment |-> comment]

Tbl(name, kind, cols, pks) ==
    [Name |-> name, TableType |-> kind, CreatedBy |-> "arn:user",
     StorageDescriptor |-> [Columns |-> cols, Compressed |-> FALSE],
     PartitionKeys |-> pks]

\* the table descriptions Glue may stream
GlueTables ==
    { Tbl("orders", "EXTERNAL_TABLE", <<Col("id", "int"), Col("dt", "string")>>, <<ColC("dt", "date", "key")>>),
      Tbl("v_orders", "VIRTUAL_VIEW", <<Col("id", "int")>>, <<>>),
      Tbl("iceberg", "MANAGED_TABLE", <<Col("id", "int")>>, <<>>),
      Tbl("lake", "GOVERNED", <<Col("id", "int")>>, <<Col("dt", "string")>>) }

\* dict.get(key, default) on the optional keys of a description
Get(d, key, default) == IF key \in DOMAIN d THEN d[key] ELSE default

----------------------------------------------------------------------------
(* Pure helpers of the adapter *)

\* a result of a helper that may raise
Ok(v) == [raised |-> FALSE, value |-> v, exc |-> NoExc]

Err(e) == [raised |-> TRUE, value |-> "", exc |-> e]

GetRelTypeDefaultTable(table) ==
    IF table.TableType = "VIRTUAL_VIEW" THEN Ok(RelationTypeView) ELSE Ok(RelationTypeTable)

\* _get_rel_type_from_glue_response
_get_rel_type_from_glue_response(table) ==
    IF table.TableType = "VIRTUAL_VIEW" THEN Ok(RelationTypeView)
    ELSE IF table.TableType = "EXTERNAL_TABLE" THEN Ok(RelationTypeTable)
    ELSE Err(RuntimeException("Unknown table type"))

\* _create_stats_dict
_create_stats_dict(label, value, description) ==
    [label |-> label, value |-> value, description |-> description, include |-> TRUE]

\* the stats fields of table_row
TableStats(table) ==
    << _create_stats_dict("description", Get(table, "Description", ""), "Table description"),
       _create_stats_dict("owner", Get(table, "Owner", ""), "Table owner"),
       _create_stats_dict("created_at", Get(table, "CreateTime", ""), "Table creation time"),
       _create_stats_dict("updated_at", Get(table, "UpdateTime", ""), "Table update time"),
       _create_stats_dict("created_by", table.CreatedBy, "Who create it"),
       _create_stats_dict("partitions", table.PartitionKeys, "Partition keys"),
       _create_stats_dict("location", Get(table.StorageDescriptor, "Location", ""), "Table path"),
       _create_stats_dict("compressed", table.StorageDescriptor.Compressed, "Table has compressed or not") >>

\* column_information of a relation: storage columns, then partition keys
RelationColumns(table) == table.StorageDescriptor.Columns \o table.PartitionKeys

CatalogColumnsDedup(table) ==
    table.StorageDescriptor.Columns \o
    SelectSeq(table.PartitionKeys,
              LAMBDA k : \A i \in DOMAIN table.StorageDescriptor.Columns :
                             table.StorageDescriptor.Columns[i].Name # k.Name)

\* the sequence _get_one_catalog enumerates for a table
CatalogColumns(table) == table.StorageDescriptor.Columns \o table.PartitionKeys

\* Relation.create(...) in list_relations_without_caching
CreateRelation(schema_relation, table, rel_type) ==
    [database |-> schema_relation.database,
     identifier |-> table.Name,
     schema |-> schema_relation.schema,
     quote_policy |-> [database |-> TRUE, schema |-> TRUE, identifier |-> TRUE],
     type |-> rel_type,
     column_information |-> RelationColumns(table)]

\* the rows one table contributes: enumerate(...) counts from 0
TableRows(target_database, schema, table, rel_type) ==
    LET cols == CatalogColumns(table)
    IN  [i \in 1..Len(cols) |->
            [table_database |-> target_database,
             table_schema |-> schema,
             table_name |-> table.Name,
             table_type |-> rel_type,
             stats |-> TableStats(table),
             column_name |-> cols[i].Name,
             column_type |-> cols[i].Type,
             column_index |-> i - 1,
             column_comment |-> Get(cols[i], "Comment", "")]]

\* list(rows[0].keys())
ColumnNames ==
    <<"table_database", "table_schema", "table_name", "table_type", "stats",
      "column_name", "column_type", "column_index", "column_comment">>

\* table_from_rows
table_from_rows(rs, column_names) ==
    [shape |-> "table", via |-> "rows", rows |-> rs, column_names |-> column_names]

\* execute_macro: the SQL collaborator's answer to one call
execute_macro(name, kwargs, manifest) ==
    [shape |-> "table", via |-> "macro", macro |-> name, kwargs |-> kwargs,
     manifest |-> manifest]

\* _catalog_filter_table: the post-filter collaborator
_catalog_filter_table(table, manifest) ==
    [shape |-> "filtered", table |-> table, manifest |-> manifest]

\* SQLAdapter.list_relations_without_caching: the SQL-based listing
SuperListRelations(schema_relation) ==
    [shape |-> "relations", via |-> "sql", schema_relation |-> schema_relation]

\* the list the Glue path returns
GlueRelations(rels) == [shape |-> "relations", via |-> "glue", items |-> rels]

\* frozenset(s.lower() for _, s in manifest.get_used_schemas())
UsedSchemas(manifest) == {lower(p[2]) : p \in manifest.used_schemas}

TargetSchemasUnfiltered(schema_list, used_schemas) == schema_list

\* [x for x in schema_list if x.lower() in used_schemas]
TargetSchemas(schema_list, used_schemas) ==
    SelectSeq(schema_list, LAMBDA x : lower(x) \in used_schemas)

ExceptAnyException(exc) == TRUE

ExceptNothing(exc) == FALSE

\* except ClientError
ExceptClientError(exc) == exc.type = "ClientError"

----------------------------------------------------------------------------
(* Inputs of the catalog operations *)

\* catalog identifiers: empty, the own-account sentinel, another account
Databases == {"", "awsdatacatalog", "123456789012"}

\* schema names, as character sequences: "", "a", "A", "b"
SchemaNames == {<<>>, <<"a">>, <<"A">>, <<"b">>}

\* manifests: the (database, schema) pairs get_used_schemas() answers
Manifests == {[used_schemas |-> u] : u \in SUBSET {<<"awsdatacatalog", <<"A">>>>, <<"awsdatacatalog", <<>>>>}}

\* the schemas argument of _get_one_catalog
SchemaSets == {{<<"A">>, <<"b">>}}

\* what one page fetch of the get_tables paginator can answer
PageResponses(last, room) ==
    {[error |-> TRUE, code |-> c, TableList |-> <<>>, NextToken |-> FALSE] : c \in ErrorCodes}
    \cup {[error |-> FALSE, code |-> "", TableList |-> l, NextToken |-> n] :
            l \in SeqUpTo(GlueTables, IF room < MaxResults THEN room ELSE MaxResults),
            n \in (IF last THEN {FALSE} ELSE BOOLEAN)}

\* the (catalog_id, name) of the stream the current call has open
StreamCatalogId ==
    IF op = "list_relations_without_caching" THEN args.schema_relation.database
    ELSE args.information_schema.database

StreamName ==
    IF op = "list_relations_without_caching" THEN args.schema_relation.schema
    ELSE target_schemas[schema_idx]

\* query_params of _retrieve_glue_tables
query_params(catalog_id, name) ==
    IF catalog_id # "awsdatacatalog"
    THEN [DatabaseName |-> name, MaxResults |-> MaxResults, CatalogId |-> catalog_id]
    ELSE [DatabaseName |-> name, MaxResults |-> MaxResults]

\* the SQL fallback of the current call: the call it issues and the value it returns
FallbackCall ==
    IF op = "list_relations_without_caching"
    THEN [call |-> "super.list_relations_without_caching",
          schema_relation |-> args.schema_relation]
    ELSE [call |-> "execute_macro", macro |-> GET_CATALOG_MACRO_NAME,
          kwargs |-> [information_schema |-> args.information_schema,
                      schemas |-> args.schemas],
          manifest |-> args.manifest]

FallbackValueKeepsPartial ==
    IF op = "list_relations_without_caching"
    THEN GlueRelations(relations)
    ELSE _catalog_filter_table(table_from_rows(rows, ColumnNames), args.manifest)

FallbackValue ==
    IF op = "list_relations_without_caching"
    THEN SuperListRelations(args.schema_relation)
    ELSE _catalog_filter_table(
            execute_macro(GET_CATALOG_MACRO_NAME,
                         [information_schema |-> args.information_schema,
                          schemas |-> args.schemas],
                         args.manifest),
            args.manifest)

\* an exception raised inside the try block of the current call: the
\* except-clause turns a ClientError into the SQL fallback, anything else
\* leaves the method
Throw(exc) ==
    /\ pc' = "done"
    /\ IF ExceptClientError(exc)
       THEN /\ caught' = exc
            /\ sql_calls' = Append(sql_calls, FallbackCall)
            /\ outcome' = Returned(FallbackValue)
       ELSE /\ outcome' = Raised(exc)
            /\ UNCHANGED <<caught, sql_calls>>

----------------------------------------------------------------------------
(* list_relations_without_caching and _get_one_catalog *)

InitCatalogInputs ==
    \/ /\ op = "list_relations_without_caching"
       /\ args \in {[schema_relation |-> [database |-> d, schema |-> s]] :
                        d \in Databases, s \in SchemaNames}
       /\ remote_schemas = <<>>
    \/ /\ op = "_get_one_catalog"
       /\ args \in {[information_schema |-> [database |-> d], schemas |-> ss, manifest |-> m] :
                        d \in Databases, ss \in SchemaSets, m \in Manifests}
       /\ remote_schemas \in DistinctSeqUpTo(SchemaNames, MaxSchemas)

\* the locals of the catalog operations before any of them runs
CatalogIdle ==
    /\ target_schemas = <<>>
    /\ schema_idx = 0
    /\ page = <<>>
    /\ more = FALSE
    /\ page_no = 0
    /\ streamed = 0
    /\ relations = <<>>
    /\ rows = <<>>
    /\ sql_calls = <<>>
    /\ caught = NoExc
    /\ classified = [called |-> FALSE]

\* no call has been made yet
FirstCall ==
    /\ pc = "call"
    /\ outcome = Pending
    /\ glue_calls = <<>>
    /\ s3_deletes = <<>>
    /\ table_local = [bound |-> FALSE]
    /\ partitions = <<>>
    /\ issued = {}
    /\ prev = [op |-> "none"]
    /\ ncalls = 1

NoCreds ==
    [s3_data_dir |-> [set |-> FALSE, value |-> <<>>], s3_staging_dir |-> <<>>,
     s3_data_naming |-> "schema_table"]

Init ==
    /\ InitCatalogInputs
    /\ CatalogIdle
    /\ FirstCall
    /\ creds = NoCreds
    /\ glue_world = <<>>

\* list_relations_without_caching, lines 59-63: the loop asks for the stream
list_relations_without_caching ==
    /\ pc = "call"
    /\ op = "list_relations_without_caching"
    /\ relations' = <<>>
    /\ pc' = "open"
    /\ UNCHANGED <<op, args, outcome, remote_schemas, target_schemas, schema_idx, page,
                   more, page_no, streamed, rows, glue_calls, sql_calls, caught>>
    /\ UNCHANGED <<classified, storageVars>>

\* _get_one_catalog, lines 206-212
_get_one_catalog ==
    /\ pc = "call"
    /\ op = "_get_one_catalog"
    /\ target_schemas' = TargetSchemas(remote_schemas, UsedSchemas(args.manifest))
    /\ rows' = <<>>
    /\ schema_idx' = 1
    /\ pc' = "loop"
    /\ UNCHANGED <<op, args, outcome, remote_schemas, page, more, page_no, streamed, relations,
                   glue_calls, sql_calls, caught>>
    /\ UNCHANGED <<classified, storageVars>>

\* _get_one_catalog, line 213: the next working schema, if any
NextSchema ==
    /\ pc = "loop"
    /\ schema_idx <= Len(target_schemas)
    /\ pc' = "open"
    /\ UNCHANGED <<op, args, outcome, remote_schemas, target_schemas, schema_idx, page,
                   more, page_no, streamed, relations, rows, glue_calls, sql_calls, caught>>
    /\ UNCHANGED <<classified, storageVars>>

\* _get_one_catalog, lines 260-269: all working schemas streamed
BuildCatalog ==
    /\ pc = "loop"
    /\ schema_idx > Len(target_schemas)
    /\ outcome' = IF rows = <<>>
                  THEN Returned(table_from_rows(<<>>, <<>>))
                  ELSE Returned(_catalog_filter_table(table_from_rows(rows, ColumnNames),
                                                   args.manifest))
    /\ pc' = "done"
    /\ UNCHANGED <<op, args, remote_schemas, target_schemas, schema_idx, page, more,
                   page_no, streamed, relations, rows, glue_calls, sql_calls, caught>>
    /\ UNCHANGED <<classified, storageVars>>

\* _retrieve_glue_tables, lines 289-302: the generator starts at the loop's
\* first request, inside the caller's try block
_retrieve_glue_tables ==
    /\ pc = "open"
    /\ IF StreamCatalogId = ""
       THEN Throw(RuntimeException("Glue GetTables: Need catalog id"))
       ELSE IF StreamName = <<>>
       THEN Throw(RuntimeException("Glue GetTables: Need database name"))
       ELSE /\ pc' = "fetch"
            /\ UNCHANGED <<outcome, sql_calls, caught>>
    /\ page_no' = 0
    /\ UNCHANGED <<op, args, remote_schemas, target_schemas, schema_idx, page, more,
                   streamed, relations, rows, glue_calls>>
    /\ UNCHANGED <<classified, storageVars>>

\* _retrieve_glue_tables, line 303: the paginator fetches one page
PaginatePage ==
    /\ pc = "fetch"
    /\ page_no' = page_no + 1
    /\ \E resp \in PageResponses(page_no + 1 >= MaxPages, MaxTables - streamed) :
          /\ glue_calls' = Append(glue_calls,
                                  [api |-> "get_tables",
                                   params |-> query_params(StreamCatalogId, StreamName),
                                   error |-> resp.code])
          /\ IF resp.error
             THEN /\ Throw(ClientError(resp.code))
                  /\ UNCHANGED <<page, more, streamed>>
             ELSE /\ page' = resp.TableList
                  /\ streamed' = streamed + Len(resp.TableList)
                  /\ more' = resp.NextToken
                  /\ pc' = "table"
                  /\ UNCHANGED <<outcome, sql_calls, caught>>
    /\ UNCHANGED <<op, args, remote_schemas, target_schemas, schema_idx, relations, rows>>
    /\ UNCHANGED <<classified, storageVars>>

\* the loop body for one yielded table: lines 64-74 and lines 215-258
HandleTable ==
    /\ pc = "table"
    /\ page # <<>>
    /\ LET table == Head(page)
           rel_type == _get_rel_type_from_glue_response(table)
       IN  /\ classified' = [called |-> TRUE, table |-> table, result |-> rel_type]
           /\ IF rel_type.raised
              THEN /\ Throw(rel_type.exc)
                   /\ UNCHANGED <<page, relations, rows>>
              ELSE /\ page' = Tail(page)
                   /\ IF op = "list_relations_without_caching"
                      THEN /\ relations' = Append(relations,
                                                  CreateRelation(args.schema_relation, table,
                                                                 rel_type.value))
                           /\ rows' = rows
                      ELSE /\ rows' = rows \o TableRows(args.information_schema.database,
                                                        StreamName, table, rel_type.value)
                           /\ relations' = relations
                   /\ UNCHANGED <<pc, outcome, sql_calls, caught>>
    /\ UNCHANGED <<op, args, remote_schemas, target_schemas, schema_idx, more, page_no,
                   streamed, glue_calls>>
    /\ UNCHANGED storageVars

\* _retrieve_glue_tables, lines 303-305: the page is used up and another follows
NextPage ==
    /\ pc = "table"
    /\ page = <<>>
    /\ more
    /\ pc' = "fetch"
    /\ UNCHANGED <<op, args, outcome, remote_schemas, target_schemas, schema_idx, page,
                   more, page_no, streamed, relations, rows, glue_calls, sql_calls, caught>>
    /\ UNCHANGED <<classified, storageVars>>

\* the stream is exhausted: line 75 returns the relations, line 213 moves on
StreamEnd ==
    /\ pc = "table"
    /\ page = <<>>
    /\ ~more
    /\ IF op = "list_relations_without_caching"
       THEN /\ outcome' = Returned(GlueRelations(relations))
            /\ pc' = "done"
            /\ schema_idx' = schema_idx
       ELSE /\ schema_idx' = schema_idx + 1
            /\ pc' = "loop"
            /\ outcome' = outcome
    /\ UNCHANGED <<op, args, remote_schemas, target_schemas, page, more, page_no,
                   streamed, relations, rows, glue_calls, sql_calls, caught>>
    /\ UNCHANGED <<classified, storageVars>>

Next ==
    \/ list_relations_without_caching
    \/ _get_one_catalog
    \/ NextSchema
    \/ BuildCatalog
    \/ _retrieve_glue_tables
    \/ PaginatePage
    \/ HandleTable
    \/ NextPage
    \/ StreamEnd

Spec == Init /\ [][Next]_vars

----------------------------------------------------------------------------
(* Properties of the catalog operations, checked under Spec *)

\* a Glue call of the current call failed with a ClientError
GlueFailed == \E i \in DOMAIN glue_calls : glue_calls[i].error # ""

ListDone == op = "list_relations_without_caching" /\ pc = "done"

CatalogDone == op = "_get_one_catalog" /\ pc = "done"

\* C1: when a Glue call fails with a ClientError while _get_one_catalog
\* streams tables, whatever was collected before, the call returns the
\* post-filter applied to the get_catalog macro's result for the same
\* (information_schema, schemas, manifest), the macro is executed once, and
\* nothing built from Glue rows is in the returned value.
C1_FallbackIsWholeRequest ==
    (CatalogDone /\ GlueFailed) =>
        /\ outcome.kind = "return"
        /\ outcome.value =
              [shape |-> "filtered",
               manifest |-> args.manifest,
               table |-> [shape |-> "table", via |-> "macro",
                          macro |-> "get_catalog",
                          kwargs |-> [information_schema |-> args.information_schema,
                                      schemas |-> args.schemas],
                          manifest |-> args.manifest]]
        /\ outcome.value.table.via # "rows"
        /\ Len(sql_calls) = 1
        /\ sql_calls[1].call = "execute_macro"

\* C1 witness: the failure came in the second working schema, after rows of
\* the first one had been collected.
C1_Witness ==
    /\ CatalogDone
    /\ GlueFailed
    /\ schema_idx = 2
    /\ rows # <<>>
    /\ outcome.kind = "return"

\* C2: when the table listing fails with a ClientError on any page,
\* list_relations_without_caching returns exactly the SQL-based listing for
\* the same schema reference, without any relation built before the failure,
\* and raises nothing.
C2_ListFallback ==
    (ListDone /\ GlueFailed) =>
        /\ outcome.kind = "return"
        /\ outcome.exc = NoExc
        /\ outcome.value = [shape |-> "relations", via |-> "sql",
                            schema_relation |-> args.schema_relation]
        /\ Len(sql_calls) = 1
        /\ sql_calls[1].call = "super.list_relations_without_caching"
        /\ sql_calls[1].schema_relation = args.schema_relation

\* C2 witness: the second page failed after a relation of the first page had
\* been built.
C2_Witness ==
    /\ ListDone
    /\ GlueFailed
    /\ Len(glue_calls) = 2
    /\ relations # <<>>
    /\ outcome.kind = "return"

\* the working schema list, from the inputs alone
WorkingSchemas ==
    SelectSeq(remote_schemas,
              LAMBDA x : \E p \in args.manifest.used_schemas : lower(p[2]) = lower(x))

\* the loop body stopped at a table: that table is still at the head of the page
StoppedAtTable == pc = "done" /\ page # <<>>

KnownKinds == {"VIRTUAL_VIEW", "EXTERNAL_TABLE"}

\* what holds in every state of a call, as to contract errors
ContractErrorsState ==
    /\ sql_calls # <<>> => (GlueFailed /\ Len(sql_calls) = 1)
    /\ (StoppedAtTable /\ Head(page).TableType \notin KnownKinds) =>
          /\ outcome = Raised(RuntimeException("Unknown table type"))
          /\ sql_calls = <<>>
    /\ (ListDone /\ args.schema_relation.database = "") =>
          /\ outcome = Raised(RuntimeException("Glue GetTables: Need catalog id"))
          /\ sql_calls = <<>> /\ glue_calls = <<>>
    /\ (ListDone /\ args.schema_relation.database # "" /\ args.schema_relation.schema = <<>>) =>
          /\ outcome = Raised(RuntimeException("Glue GetTables: Need database name"))
          /\ sql_calls = <<>> /\ glue_calls = <<>>
    /\ (CatalogDone /\ args.information_schema.database = "" /\ WorkingSchemas # <<>>) =>
          /\ outcome = Raised(RuntimeException("Glue GetTables: Need catalog id"))
          /\ sql_calls = <<>> /\ glue_calls = <<>>
    /\ (CatalogDone /\ args.information_schema.database # "" /\ WorkingSchemas # <<>>
          /\ WorkingSchemas[1] = <<>>) =>
          /\ outcome = Raised(RuntimeException("Glue GetTables: Need database name"))
          /\ sql_calls = <<>> /\ glue_calls = <<>>
    /\ (pc = "done" /\ outcome.kind = "raise") =>
          /\ outcome.exc.type = "RuntimeException"
          /\ outcome.value = NoValue
          /\ sql_calls = <<>>
    /\ (CatalogDone /\ outcome.kind = "return" /\ ~GlueFailed) =>
          /\ WorkingSchemas # <<>> => args.information_schema.database # ""
          /\ \A i \in DOMAIN WorkingSchemas : WorkingSchemas[i] # <<>>

\* what every step of a call does when a contract error arises in it: the
\* stream is asked for its first table with an empty catalog id or schema
\* name, or the table the loop takes has an unknown kind
ContractErrorsStep ==
    /\ (pc = "open" /\ (StreamCatalogId = "" \/ StreamName = <<>>)) =>
          /\ pc' = "done"
          /\ outcome' = Raised(RuntimeException(
                            IF StreamCatalogId = "" THEN "Glue GetTables: Need catalog id"
                            ELSE "Glue GetTables: Need database name"))
          /\ sql_calls' = <<>>
          /\ glue_calls' = glue_calls
    /\ (pc = "table" /\ page # <<>> /\ Head(page).TableType \notin KnownKinds) =>
          /\ pc' = "done"
          /\ outcome' = Raised(RuntimeException("Unknown table type"))
          /\ sql_calls' = <<>>
    /\ sql_calls' # sql_calls =>
          /\ glue_calls' # glue_calls
          /\ glue_calls'[Len(glue_calls')].error # ""
          /\ outcome'.kind = "return"

\* C3: the SQL path is called only in a step in which a Glue call raised a
\* ClientError; an unknown table kind, or an empty catalog id or schema name
\* given to the Glue stream, ends the call with that RuntimeException, with
\* no SQL call and no returned value; a value is returned from the Glue path
\* only when none of these errors arose.
C3_ContractErrorsPropagate == []ContractErrorsState /\ [][ContractErrorsStep]_vars

\* C3 witness: an unknown kind met after a row-producing table, in a catalog
\* request, ended the call with the RuntimeException.
C3_Witness ==
    /\ CatalogDone
    /\ StoppedAtTable
    /\ Head(page).TableType \notin KnownKinds
    /\ rows # <<>>
    /\ outcome.kind = "raise"

\* C4: _get_rel_type_from_glue_response gives View for kind VIRTUAL_VIEW,
\* Table for kind EXTERNAL_TABLE, and for every other kind raises the
\* unknown-type error and returns no type.
C4_RelTypeCaseAnalysis ==
    classified.called =>
        /\ classified.table.TableType = "VIRTUAL_VIEW" =>
              (~classified.result.raised /\ classified.result.value = "view")
        /\ classified.table.TableType = "EXTERNAL_TABLE" =>
              (~classified.result.raised /\ classified.result.value = "table")
        /\ classified.table.TableType \notin {"VIRTUAL_VIEW", "EXTERNAL_TABLE"} =>
              /\ classified.result.raised
              /\ classified.result.exc = RuntimeException("Unknown table type")
              /\ classified.result.value \notin {"view", "table"}

\* C4 witness: a table of another kind was classified.
C4_Witness ==
    /\ classified.called
    /\ classified.table.TableType = "MANAGED_TABLE"
    /\ classified.result.raised

\* the description with the given name
TableNamed(name) == CHOOSE t \in GlueTables : t.Name = name

\* s is the elements of a followed by the elements of b, nothing dropped or moved
IsConcat(s, a, b) ==
    /\ Len(s) = Len(a) + Len(b)
    /\ \A i \in 1..Len(a) : s[i] = a[i]
    /\ \A j \in 1..Len(b) : s[Len(a) + j] = b[j]

\* C5: a relation's column_information is the storage columns followed by the
\* partition keys, each in declared order, duplicates kept; the catalog rows of
\* a table are one per element of that sequence, in order, with column_index
\* the element's zero-based position, so each table's indices run 0..n-1.
C5_ColumnAssembly ==
    /\ \A i \in DOMAIN relations :
          LET t == TableNamed(relations[i].identifier)
          IN  IsConcat(relations[i].column_information,
                       t.StorageDescriptor.Columns, t.PartitionKeys)
    /\ \A k \in DOMAIN rows :
          LET r == rows[k]
              t == TableNamed(r.table_name)
              cols == t.StorageDescriptor.Columns
              keys == t.PartitionKeys
              n == Len(cols) + Len(keys)
              e == IF r.column_index + 1 <= Len(cols)
                   THEN cols[r.column_index + 1]
                   ELSE keys[r.column_index + 1 - Len(cols)]
          IN  /\ r.column_index \in 0..(n - 1)
              /\ r.column_name = e.Name
              /\ r.column_type = e.Type
              /\ r.column_index > 0 =>
                    /\ k > 1
                    /\ rows[k - 1].column_index = r.column_index - 1
                    /\ rows[k - 1].table_name = r.table_name
                    /\ rows[k - 1].table_schema = r.table_schema
              /\ r.column_index < n - 1 =>
                    /\ k < Len(rows)
                    /\ rows[k + 1].column_index = r.column_index + 1
                    /\ rows[k + 1].table_name = r.table_name
              /\ (r.column_index = 0 /\ k > 1) =>
                    LET q == TableNamed(rows[k - 1].table_name)
                    IN  rows[k - 1].column_index =
                            Len(q.StorageDescriptor.Columns) + Len(q.PartitionKeys) - 1

\* C5 witness: a partition key named like a storage column has its own row,
\* right after that column's row, at index 2.
C5_Witness ==
    \E k \in DOMAIN rows :
        /\ k > 1
        /\ rows[k].column_index = 2
        /\ rows[k].column_name = "dt"
        /\ rows[k].column_type = "date"
        /\ rows[k - 1].column_name = "dt"
        /\ rows[k - 1].column_type = "string"

\* position of a schema in the visible-schema list
Pos(x) == CHOOSE i \in DOMAIN remote_schemas : remote_schemas[i] = x

Fetched(i) == glue_calls[i].params.DatabaseName

\* C9: _get_one_catalog asks Glue only for schemas of the visible-schema list
\* whose lower-cased name is a lower-cased used schema of the manifest, in the
\* order of that list, one schema after the other.
C9_OnlyUsedSchemasFetched ==
    op = "_get_one_catalog" =>
        LET n == Len(glue_calls)
            \* positions in the visible-schema list of the used schemas
            used == {j \in DOMAIN remote_schemas :
                        \E p \in args.manifest.used_schemas :
                            lower(p[2]) = lower(remote_schemas[j])}
        IN  /\ \A i \in 1..n :
                  /\ \E j \in DOMAIN remote_schemas : remote_schemas[j] = Fetched(i)
                  /\ Pos(Fetched(i)) \in used
            /\ \A i \in 1..(n - 1) : Pos(Fetched(i)) <= Pos(Fetched(i + 1))
            /\ \A j \in 1..n : \A w \in used :
                  w < Pos(Fetched(j)) => \E i \in 1..(j - 1) : Pos(Fetched(i)) = w

\* C9 witness: a catalog request finished on the Glue path with a visible but
\* unused schema listed first, and Glue was asked only about the one after it.
C9_Witness ==
    /\ CatalogDone
    /\ outcome.kind = "return"
    /\ Len(remote_schemas) = 2
    /\ remote_schemas[1] = <<"b">>
    /\ glue_calls # <<>>
    /\ \A i \in DOMAIN glue_calls : Fetched(i) = remote_schemas[2]

----------------------------------------------------------------------------
(* s3_table_prefix, s3_uuid_table_location, s3_schema_table_location,
   s3_table_location *)

None == [set |-> FALSE, value |-> <<>>]

Some(v) == [set |-> TRUE, value |-> v]

ValueError(msg) == [type |-> "ValueError", detail |-> msg]

Path(p) == [shape |-> "path", path |-> p]

\* "s3://d/"
DataDir == <<"s", "3", ":", "/", "/", "d", "/">>

\* "s3://b/"
StagingDir == <<"s", "3", ":", "/", "/", "b", "/">>

\* "s3://b/x": a staging directory written without the final slash
StagingDirNoSlash == <<"s", "3", ":", "/", "/", "b", "/", "x">>

\* "tables/"
TablesDir == <<"t", "a", "b", "l", "e", "s", "/">>

\* the credentials a connection may carry
Credentials ==
    [s3_data_dir : {None, Some(<<>>), Some(DataDir)},
     s3_staging_dir : {StagingDir, StagingDirNoSlash},
     s3_data_naming : {"schema_table", "uuid", "hive"}]

\* schema and table names given to s3_table_location
LocationSchemas == {<<"s", "1">>, <<"s", "2">>}

LocationTables == {<<"t", "1">>, <<"t", "2">>}

\* the identifiers str(uuid4()) can give: as many as there can be calls
UuidPool == {<<"u", ToString(i)>> : i \in 1..MaxCalls}

\* str(uuid4()): an identifier that no earlier call was given
uuid4(given) == UuidPool \ given

S3TablePrefixStagingFirst(c) ==
    IF ~c.s3_data_dir.set THEN c.s3_data_dir.value ELSE c.s3_staging_dir \o TablesDir

\* s3_table_prefix
s3_table_prefix(c) ==
    IF c.s3_data_dir.set THEN c.s3_data_dir.value ELSE c.s3_staging_dir \o TablesDir

\* s3_uuid_table_location, with u the identifier uuid4() gave
s3_uuid_table_location(c, u) == s3_table_prefix(c) \o u \o <<"/">>

\* s3_schema_table_location
s3_schema_table_location(c, schema_name, table_name) ==
    s3_table_prefix(c) \o schema_name \o <<"/">> \o table_name \o <<"/">>

\* s3_table_location: one call
s3_table_location ==
    /\ pc = "call"
    /\ op = "s3_table_location"
    /\ IF creds.s3_data_naming = "schema_table"
       THEN /\ outcome' = Returned(Path(s3_schema_table_location(creds, args.schema_name,
                                                              args.table_name)))
            /\ issued' = issued
       ELSE IF creds.s3_data_naming = "uuid"
       THEN \E u \in uuid4(issued) :
               /\ outcome' = Returned(Path(s3_uuid_table_location(creds, u)))
               /\ issued' = issued \cup {u}
       ELSE /\ outcome' = Raised(ValueError("Unknown value for s3_data_naming"))
            /\ issued' = issued
    /\ pc' = "done"
    /\ UNCHANGED <<op, args, glue_calls, creds, glue_world, s3_deletes, table_local,
                   partitions, prev, ncalls>>
    /\ UNCHANGED catalogVars

\* the caller asks for another location
NextLocationCall ==
    /\ pc = "done"
    /\ ncalls < MaxCalls
    /\ prev' = [op |-> op, args |-> args, outcome |-> outcome]
    /\ args' \in [schema_name : LocationSchemas, table_name : LocationTables]
    /\ ncalls' = ncalls + 1
    /\ outcome' = Pending
    /\ pc' = "call"
    /\ UNCHANGED <<op, glue_calls, creds, issued, glue_world, s3_deletes, table_local,
                   partitions>>
    /\ UNCHANGED catalogVars

InitLocation ==
    /\ op = "s3_table_location"
    /\ args \in [schema_name : LocationSchemas, table_name : LocationTables]
    /\ creds \in Credentials
    /\ glue_world = <<>>
    /\ remote_schemas = <<>>
    /\ CatalogIdle
    /\ FirstCall

NextLocation == s3_table_location \/ NextLocationCall

SpecLocation == InitLocation /\ [][NextLocation]_vars

----------------------------------------------------------------------------
(* clean_up_table and clean_up_partitions *)

UnboundLocalError(name) == [type |-> "UnboundLocalError", detail |-> name]

\* a method that ends without a return statement
ReturnedNone == Returned([shape |-> "None"])

\* "s3://"
S3Scheme == <<"s", "3", ":", "/", "/">>

\* storage locations Glue may report
Locations ==
    { <<"s", "3", ":", "/", "/", "b", "/", "p", "/">>,         \* s3://b/p/
      <<"s", "3", ":", "/", "/", "b", "/", "p", "/", "q">>,    \* s3://b/p/q
      <<"s", "3", ":", "/", "/", "b", "/">>,                   \* s3://b/
      <<"s", "3", ":", "/", "/", "b">>,                        \* s3://b
      <<"s", "3", ":", "/", "/", "/", "p">>,                   \* s3:///p
      <<"s", "3", ":", "/", "/", "b", "/", "p", "\n", "q">>,   \* s3://b/p, a line break, q
      <<"x", "s", "3", ":", "/", "/", "b", "/", "p">>,         \* xs3://b/p
      <<"g", "s", ":", "/", "/", "b", "/", "p">>,              \* gs://b/p
      <<>> }

\* the length of the longest prefix of s that has no character of the set stop
RECURSIVE Span(_, _)
Span(s, stop) ==
    IF s = <<>> \/ Head(s) \in stop THEN 0 ELSE 1 + Span(Tail(s), stop)

NoMatch == [matched |-> FALSE, bucket |-> <<>>, prefix |-> <<>>]

RECURSIVE MatchAnywhere(_)
MatchAnywhere(loc) ==
    IF Len(loc) < Len(S3Scheme) THEN NoMatch
    ELSE IF SubSeq(loc, 1, Len(S3Scheme)) = S3Scheme
    THEN LET rest == SubSeq(loc, Len(S3Scheme) + 1, Len(loc))
             n == Span(rest, {"/"})
         IN  IF n < Len(rest)
             THEN LET after == SubSeq(rest, n + 2, Len(rest))
                  IN  [matched |-> TRUE, bucket |-> SubSeq(rest, 1, n),
                       prefix |-> SubSeq(after, 1, Span(after, {"\n"}))]
             ELSE NoMatch
    ELSE MatchAnywhere(Tail(loc))

\* re.compile("s3://([^/]*)/(.*)").match(loc): anchored at the start; [^/]*
\* takes every character up to the first "/", which must be there; .* takes
\* the characters up to the first line break
Match(loc) ==
    IF Len(loc) >= Len(S3Scheme) /\ SubSeq(loc, 1, Len(S3Scheme)) = S3Scheme
    THEN LET rest == SubSeq(loc, Len(S3Scheme) + 1, Len(loc))
             n == Span(rest, {"/"})
         IN  IF n < Len(rest)
             THEN LET after == SubSeq(rest, n + 2, Len(rest))
                  IN  [matched |-> TRUE, bucket |-> SubSeq(rest, 1, n),
                       prefix |-> SubSeq(after, 1, Span(after, {"\n"}))]
             ELSE NoMatch
    ELSE NoMatch

\* s3_resource.Bucket(bucket_name).objects.filter(Prefix=prefix).delete()
S3Delete(m) == [Bucket |-> m.bucket, Prefix |-> m.prefix]

\* table names given to the clean-up operations
TableNames == {"t1", "t2"}

\* what get_table answers for one table
GetTableResponses ==
    {[error |-> c, Location |-> <<>>] : c \in ErrorCodes}
    \cup {[error |-> "", Location |-> l] : l \in Locations}

IsNotFoundNever(code) == FALSE

\* e.response["Error"]["Code"] == "EntityNotFoundException"
IsNotFound(code) == code = "EntityNotFoundException"

\* clean_up_table, lines 175-184: the lookup and its except-clause
clean_up_table_try ==
    /\ pc = "call"
    /\ op = "clean_up_table"
    /\ LET resp == glue_world[args.table_name]
       IN  /\ glue_calls' = Append(glue_calls,
                                   [api |-> "get_table",
                                    params |-> [DatabaseName |-> args.database_name,
                                                Name |-> args.table_name],
                                    error |-> resp.error])
           /\ IF resp.error # ""
              THEN IF IsNotFound(resp.error)
                   THEN /\ outcome' = ReturnedNone
                        /\ pc' = "done"
                        /\ table_local' = table_local
                   ELSE /\ pc' = "check"
                        /\ UNCHANGED <<outcome, table_local>>
              ELSE /\ table_local' = [bound |-> TRUE,
                                      Table |-> [StorageDescriptor |->
                                                    [Location |-> resp.Location]]]
                   /\ pc' = "check"
                   /\ outcome' = outcome
    /\ UNCHANGED <<op, args, creds, issued, glue_world, s3_deletes, partitions, prev, ncalls>>
    /\ UNCHANGED catalogVars

\* clean_up_table, lines 186-196
clean_up_table_delete ==
    /\ pc = "check"
    /\ op = "clean_up_table"
    /\ IF ~table_local.bound
       THEN /\ outcome' = Raised(UnboundLocalError("table"))
            /\ s3_deletes' = s3_deletes
       ELSE LET m == Match(table_local.Table.StorageDescriptor.Location)
            IN  /\ s3_deletes' = IF m.matched THEN Append(s3_deletes, S3Delete(m))
                                 ELSE s3_deletes
                /\ outcome' = ReturnedNone
    /\ pc' = "done"
    /\ UNCHANGED <<op, args, glue_calls, creds, issued, glue_world, table_local, partitions,
                   prev, ncalls>>
    /\ UNCHANGED catalogVars

\* the caller cleans up another table, or the same one again
NextCleanUpCall ==
    /\ pc = "done"
    /\ ncalls < MaxCalls
    /\ prev' = [op |-> op, args |-> args, outcome |-> outcome, deletes |-> s3_deletes]
    /\ args' \in [database_name : {"db"}, table_name : TableNames]
    /\ ncalls' = ncalls + 1
    /\ outcome' = Pending
    /\ glue_calls' = <<>>
    /\ s3_deletes' = <<>>
    /\ table_local' = [bound |-> FALSE]
    /\ pc' = "call"
    /\ UNCHANGED <<op, creds, issued, glue_world, partitions>>
    /\ UNCHANGED catalogVars

InitCleanTable ==
    /\ op = "clean_up_table"
    /\ args \in [database_name : {"db"}, table_name : TableNames]
    /\ glue_world \in [TableNames -> GetTableResponses]
    /\ creds = NoCreds
    /\ remote_schemas = <<>>
    /\ CatalogIdle
    /\ FirstCall

NextCleanTable == clean_up_table_try \/ clean_up_table_delete \/ NextCleanUpCall

SpecCleanTable == InitCleanTable /\ [][NextCleanTable]_vars

Partition(loc) == [Values |-> <<"v">>, StorageDescriptor |-> [Location |-> loc]]

\* what get_partitions answers
GetPartitionsResponses ==
    {[error |-> c, Partitions |-> <<>>] : c \in ErrorCodes}
    \cup {[error |-> "", Partitions |-> ps] :
            ps \in SeqUpTo({Partition(l) : l \in Locations}, MaxPartitions)}

\* clean_up_partitions, lines 148-158: the partition query, outside any try
clean_up_partitions ==
    /\ pc = "call"
    /\ op = "clean_up_partitions"
    /\ \E resp \in GetPartitionsResponses :
          /\ glue_calls' = Append(glue_calls,
                                  [api |-> "get_partitions",
                                   params |-> [DatabaseName |-> args.database_name,
                                               TableName |-> args.table_name,
                                               Expression |-> args.where_condition],
                                   error |-> resp.error,
                                   Partitions |-> resp.Partitions])
          /\ IF resp.error # ""
             THEN /\ outcome' = Raised(ClientError(resp.error))
                  /\ pc' = "done"
                  /\ partitions' = partitions
             ELSE /\ partitions' = resp.Partitions
                  /\ pc' = "partition"
                  /\ outcome' = outcome
    /\ UNCHANGED <<op, args, creds, issued, glue_world, s3_deletes, table_local, prev, ncalls>>
    /\ UNCHANGED catalogVars

\* clean_up_partitions, lines 159-170: the loop body for one partition
clean_up_partitions_loop ==
    /\ pc = "partition"
    /\ partitions # <<>>
    /\ LET m == Match(Head(partitions).StorageDescriptor.Location)
       IN  s3_deletes' = IF m.matched THEN Append(s3_deletes, S3Delete(m)) ELSE s3_deletes
    /\ partitions' = Tail(partitions)
    /\ UNCHANGED <<op, pc, args, outcome, glue_calls, creds, issued, glue_world, table_local,
                   prev, ncalls>>
    /\ UNCHANGED catalogVars

\* clean_up_partitions: the loop is over
clean_up_partitions_return ==
    /\ pc = "partition"
    /\ partitions = <<>>
    /\ outcome' = ReturnedNone
    /\ pc' = "done"
    /\ UNCHANGED <<op, args, glue_calls, creds, issued, glue_world, s3_deletes, table_local,
                   partitions, prev, ncalls>>
    /\ UNCHANGED catalogVars

InitPartitions ==
    /\ op = "clean_up_partitions"
    /\ args \in [database_name : {"db"}, table_name : TableNames,
                 where_condition : {"dt = '2022-01-01'"}]
    /\ glue_world = <<>>
    /\ creds = NoCreds
    /\ remote_schemas = <<>>
    /\ CatalogIdle
    /\ FirstCall

NextPartitions == clean_up_partitions \/ clean_up_partitions_loop \/ clean_up_partitions_return

SpecPartitions == InitPartitions /\ [][NextPartitions]_vars

----------------------------------------------------------------------------
(* Properties of s3_table_location, checked under SpecLocation *)

LocationDone == op = "s3_table_location" /\ pc = "done"

\* the table root the configuration determines
Root ==
    IF creds.s3_data_dir.set
    THEN creds.s3_data_dir.value
    ELSE creds.s3_staging_dir \o <<"t", "a", "b", "l", "e", "s", "/">>

StartsWith(s, p) == Len(s) >= Len(p) /\ SubSeq(s, 1, Len(p)) = p

----------------------------------------------------------------------------
(* Properties of clean_up_table, checked under SpecCleanTable *)

TableDone == op = "clean_up_table" /\ pc = "done"

\* C7: clean_up_table on a table Glue reports as not found returns normally
\* and issues no S3 delete; a repeated call on the same table ends the same
\* way.
C7_MissingTableIsNoOp ==
    (TableDone /\ glue_world[args.table_name].error = "EntityNotFoundException") =>
        /\ outcome = ReturnedNone
        /\ s3_deletes = <<>>
        /\ (prev.op = "clean_up_table" /\ prev.args = args) =>
              /\ prev.outcome = outcome
              /\ prev.deletes = <<>>

\* C7 witness: the second of two calls on the same missing table has ended.
C7_Witness ==
    /\ TableDone
    /\ glue_world[args.table_name].error = "EntityNotFoundException"
    /\ prev.op = "clean_up_table"
    /\ prev.args = args
    /\ outcome.kind = "return"

\* C10: when the table lookup fails with an error code other than
\* EntityNotFoundException, clean_up_table raises that ClientError to the
\* caller and issues no S3 delete.
C10_OtherLookupErrorsSurface ==
    (TableDone /\ glue_world[args.table_name].error \notin {"", "EntityNotFoundException"}) =>
        /\ outcome = Raised(ClientError(glue_world[args.table_name].error))
        /\ s3_deletes = <<>>

----------------------------------------------------------------------------
(* Properties of clean_up_partitions, checked under SpecPartitions *)

\* loc reads "s3://" bucket "/" prefix, the bucket being loc[6..k-1], without
\* a slash, and the prefix loc[k+1..e], the rest of the location's first line
ParsesAt(loc, k, e) ==
    /\ Len(loc) >= 6
    /\ \A i \in 1..5 : loc[i] = S3Scheme[i]
    /\ k \in 6..Len(loc) /\ e \in k..Len(loc)
    /\ loc[k] = "/"
    /\ \A i \in 6..(k - 1) : loc[i] # "/"
    /\ \A i \in (k + 1)..e : loc[i] # "\n"
    /\ e < Len(loc) => loc[e + 1] = "\n"

Parses(loc) == \E k, e \in 1..Len(loc) : ParsesAt(loc, k, e)

\* the delete that the location of a partition that parses calls for
DeleteFor(loc) ==
    LET ke == CHOOSE ke \in (1..Len(loc)) \X (1..Len(loc)) : ParsesAt(loc, ke[1], ke[2])
    IN  [Bucket |-> SubSeq(loc, 6, ke[1] - 1), Prefix |-> SubSeq(loc, ke[1] + 1, ke[2])]

\* one delete per partition whose location parses, in the order of the partitions
RECURSIVE ExpectedDeletes(_)
ExpectedDeletes(ps) ==
    IF ps = <<>> THEN <<>>
    ELSE (IF Parses(Head(ps).StorageDescriptor.Location)
          THEN <<DeleteFor(Head(ps).StorageDescriptor.Location)>>
          ELSE <<>>) \o ExpectedDeletes(Tail(ps))

PartitionsDone == op = "clean_up_partitions" /\ pc = "done"

\* C8: every S3 delete clean_up_partitions issues targets the bucket and
\* prefix read from the location of a partition Glue returned; when it ends,
\* it has issued exactly one delete per returned partition whose location
\* parses as s3://bucket/prefix, in order, none for the others, which do not
\* stop it, and none at all when no partition was returned.
C8_DeletesFollowMetadata ==
    /\ \A d \in DOMAIN s3_deletes :
          /\ glue_calls # <<>>
          /\ \E i \in DOMAIN glue_calls[1].Partitions :
                LET loc == glue_calls[1].Partitions[i].StorageDescriptor.Location
                IN  Parses(loc) /\ s3_deletes[d] = DeleteFor(loc)
    /\ (PartitionsDone /\ glue_calls[1].error = "") =>
          /\ outcome = ReturnedNone
          /\ s3_deletes = ExpectedDeletes(glue_calls[1].Partitions)
          /\ glue_calls[1].Partitions = <<>> => s3_deletes = <<>>
    /\ (PartitionsDone /\ glue_calls[1].error # "") => s3_deletes = <<>>

\* C8 witness: of two returned partitions the first has a location that does
\* not parse and the second one that does; one delete was issued.
C8_Witness ==
    /\ PartitionsDone
    /\ glue_calls[1].error = ""
    /\ Len(glue_calls[1].Partitions) = 2
    /\ ~Parses(glue_calls[1].Partitions[1].StorageDescriptor.Location)
    /\ Parses(glue_calls[1].Partitions[2].StorageDescriptor.Location)
    /\ Len(s3_deletes) = 1
    /\ outcome.kind = "return"

====
